---- MODULE Spec2Model ----
(***************************************************************************)
(* A model of rls-vfs (src/src/lib.rs): the in-memory store of file        *)
(* buffers, VfsInternal<T, U>, its File<U> buffers and the edit algorithm  *)
(* File::make_change.                                                      *)
(*                                                                         *)
(* A text is a sequence of bytes (integers 0..255) that is valid UTF-8.    *)
(* Offsets are 0-based as in the source; TLA+ sequences are 1-based, so    *)
(* the byte at offset i of text is text[i + 1].                            *)
(***************************************************************************)
EXTENDS Integers, Sequences, FiniteSets, TLC

VARIABLES
    files,      \* VfsInternal.files: the map path -> File, DOMAIN = cached paths
    poisoned,   \* the poison flag of the Mutex around the map
    last,       \* the last operation that ran: its name, arguments and result
    calls       \* the calls in flight, one per thread: position and locals

vars == <<files, poisoned, last, calls>>

(***************************************************************************)
(* Bounds of the model.                                                    *)
(***************************************************************************)
\* the longest text, in bytes, a buffer holds in the model
MaxLen == 3
\* the largest number of changes in one on_changes batch
MaxBatch == 3

(***************************************************************************)
(* Option<T> and Result<T, E>.                                             *)
(***************************************************************************)
None == <<>>
Some(x) == <<x>>
IsSome(o) == Len(o) = 1
Unwrap(o) == o[1]

Ok(v) == [tag |-> "Ok", val |-> v]
Err(e) == [tag |-> "Err", val |-> e]
\* a panic that unwinds out of the operation (Option::unwrap / Result::unwrap)
Panic == [tag |-> "Panic", val |-> "unwrap"]
IsOk(r) == r.tag = "Ok"

\* A u64 is the pair of its high and low 32 bits, hi * 2^32 + lo: the model
\* checker's integers are narrower than a u64.
U64(hi, lo) == [hi |-> hi, lo |-> lo]
\* `x as u32` of a u64: the low 32 bits
AsU32(x) == x.lo

(***************************************************************************)
(* Texts.                                                                  *)
(***************************************************************************)
\* the newline byte make_line_indices splits on
NewLine == 10
\* the characters of the model, each as its UTF-8 bytes: 'a', 'b', '\n' and
\* the two-byte 'e' with an acute accent (0xC3 0xA9)
CharA == <<97>>
CharB == <<98>>
CharNL == <<NewLine>>
CharE == <<195, 169>>
\* the characters the texts of the model are made of
Chars == {CharA, CharNL, CharE}

\* a UTF-8 continuation byte, 0b10xxxxxx: no character starts on it
IsContinuation(b) == b >= 128 /\ b <= 191

\* str::is_char_boundary
IsCharBoundary(s, i) ==
    \/ i = 0
    \/ i = Len(s)
    \/ i > 0 /\ i < Len(s) /\ ~IsContinuation(s[i + 1])

\* the texts of ts, and each with one more character
Extended(ts) == ts \cup {t \o c : t \in ts, c \in Chars}

RECURSIVE TextsOfChars(_)
\* the texts of at most n characters
TextsOfChars(n) ==
    IF n = 0 THEN {<<>>}
    ELSE Extended(TextsOfChars(n - 1))

\* the texts of the model: at most MaxLen bytes
Texts == {t \in TextsOfChars(MaxLen) : Len(t) <= MaxLen}

\* &s[a..b]
Slice(s, a, b) == SubSeq(s, a + 1, b)

RECURSIVE char_indices_from(_, _)
\* str::char_indices: the byte offset of every character of s, in order
char_indices_from(s, i) ==
    IF i >= Len(s) THEN <<>>
    ELSE IF IsContinuation(s[i + 1]) THEN char_indices_from(s, i + 1)
    ELSE <<i>> \o char_indices_from(s, i + 1)

char_indices(s) == char_indices_from(s, 0)

\* the number of characters of s
CharLen(s) == Len(char_indices(s))

\* the element an enumerated iterator yields at index c, if any
nth(it, c) == IF c < Len(it) THEN <<it[c + 1]>> ELSE <<>>

\* byte_in_str were c taken for a byte offset
byte_in_str_bytes(s, c) == IF c <= Len(s) THEN <<c>> ELSE <<>>

\* byte_in_str: c is a character offset, the result a byte offset. The
\* characters are enumerated with a '\0' chained at offset len(s).
byte_in_str(s, c) ==
    nth(char_indices(s) \o <<Len(s)>>, c)

RECURSIVE make_line_indices_from(_, _)
make_line_indices_from(text, i) ==
    IF i >= Len(text) THEN <<>>
    ELSE (IF text[i + 1] = NewLine THEN <<i + 1>> ELSE <<>>)
             \o make_line_indices_from(text, i + 1)

\* an index that lacks the final entry len(text)
make_line_indices_open(text) == <<0>> \o make_line_indices_from(text, 0)

\* make_line_indices: 0, the offset after every newline byte, len(text).
\* The offsets are cast `as u32`, which changes none below 2^32: every text
\* of the model is shorter.
make_line_indices(text) ==
    <<0>> \o make_line_indices_from(text, 0) \o <<Len(text)>>

(***************************************************************************)
(* File<U>.                                                                *)
(***************************************************************************)
\* a File: text, line_indices, changed, user_data (an Option<U>)
File(text, line_indices, changed, user_data) ==
    [text |-> text, line_indices |-> line_indices,
     changed |-> changed, user_data |-> user_data]

\* the File that FileLoader::read builds from the bytes it read
\* (File::from_text in the tests)
from_text(text) == File(text, make_line_indices(text), FALSE, None)

\* Vec::get
\* a lookup that clamps the index to the last entry instead of returning None
Get_clamped(v, i) == IF i < Len(v) THEN Some(v[i + 1]) ELSE Some(v[Len(v)])

\* the range of a line without the newline that ends it
load_line_range_chomped(self, start, end) ==
    IF ~IsSome(start) THEN Err("BadLocation")
    ELSE IF ~IsSome(end) THEN Err("BadLocation")
    ELSE IF Unwrap(end) <= Len(self.text) /\ Unwrap(start) < Unwrap(end)
         THEN Ok(Slice(self.text, Unwrap(start), Unwrap(end) - 1))
         ELSE Err("BadLocation")

Get(v, i) == IF i < Len(v) THEN Some(v[i + 1]) ELSE None

\* File::load_line once start and end are looked up: lines 469-473
load_line_range(self, start, end) ==
    IF ~IsSome(start) THEN Err("BadLocation")
    ELSE IF ~IsSome(end) THEN Err("BadLocation")
    ELSE IF Unwrap(end) <= Len(self.text) /\ Unwrap(start) <= Unwrap(end)
         THEN Ok(Slice(self.text, Unwrap(start), Unwrap(end)))
         ELSE Err("BadLocation")

\* File::load_line
load_line(self, line) ==
    load_line_range(self, Get(self.line_indices, line),
                    Get(self.line_indices, line + 1))

\* Change::AddFile and Change::ReplaceText. A span is (row_start, col_start)
\* to (row_end, col_end), zero-indexed; len is an Option<u64>.
AddFile(file, text) == [kind |-> "AddFile", file |-> file, text |-> text]
ReplaceText(file, row_start, col_start, row_end, col_end, len, text) ==
    [kind |-> "ReplaceText", file |-> file,
     row_start |-> row_start, col_start |-> col_start,
     row_end |-> row_end, col_end |-> col_end, len |-> len, text |-> text]

\* base + byte_in_str(..).unwrap(): the unwrap of a None panics
offset_from(base, b) == IF IsSome(b) THEN Ok(base + Unwrap(b)) ELSE Panic

\* byte_end from row_end/col_end, last_line being self.load_line(row_end):
\* lines 441-443. The unwrap of an Err panics.
byte_end_of_span(self, c, last_line) ==
    IF ~IsOk(last_line) THEN Panic
    ELSE offset_from(self.line_indices[c.row_end + 1],
                     byte_in_str(last_line.val, c.col_end))

\* replace_byte_end were len counted in bytes
replace_byte_end_bytes(self, c, byte_start) ==
    IF IsSome(c.len)
    THEN offset_from(byte_start,
                     byte_in_str_bytes(Slice(self.text, byte_start, Len(self.text)),
                                       AsU32(Unwrap(c.len))))
    ELSE byte_end_of_span(self, c, load_line(self, c.row_end))

\* byte_end of a ReplaceText, given its byte_start: lines 431-444
replace_byte_end(self, c, byte_start) ==
    IF IsSome(c.len)
    THEN offset_from(byte_start,
                     byte_in_str(Slice(self.text, byte_start, Len(self.text)),
                                 AsU32(Unwrap(c.len))))
    ELSE byte_end_of_span(self, c, load_line(self, c.row_end))

\* (byte_start, byte_end): line 446
range_pair(byte_start, byte_end) ==
    IF IsOk(byte_end) THEN Ok(<<byte_start, byte_end.val>>) ELSE Panic

\* the range once byte_start is computed: lines 431-446
range_from_start(self, c, byte_start) ==
    IF ~IsOk(byte_start) THEN Panic
    ELSE range_pair(byte_start.val, replace_byte_end(self, c, byte_start.val))

\* the range, first_line being self.load_line(row_start): lines 427-446
range_from_first_line(self, c, first_line) ==
    IF ~IsOk(first_line) THEN Panic
    ELSE range_from_start(self, c,
             offset_from(self.line_indices[c.row_start + 1],
                         byte_in_str(first_line.val, c.col_start)))

\* the byte range (byte_start, byte_end) of a ReplaceText: lines 426-447
replace_range(self, c) ==
    range_from_first_line(self, c, load_line(self, c.row_start))

\* text[..range.0] + c.text + text[range.1..]: lines 448-451. A slice of a
\* str panics when an end of it is past the text or inside a character.
splice(self, c, range) ==
    IF ~IsOk(range) THEN Panic
    ELSE IF /\ range.val[1] <= Len(self.text)
            /\ IsCharBoundary(self.text, range.val[1])
            /\ range.val[2] <= Len(self.text)
            /\ IsCharBoundary(self.text, range.val[2])
         THEN Ok(Slice(self.text, 0, range.val[1]) \o c.text
                     \o Slice(self.text, range.val[2], Len(self.text)))
         ELSE Panic

\* the new text of one change: lines 424-454
change_new_text(self, c) ==
    IF c.kind = "AddFile" THEN Ok(c.text)
    ELSE splice(self, c, replace_range(self, c))

\* self.text = new_text; self.line_indices = make_line_indices(&self.text)
set_text(self, new_text) ==
    [self EXCEPT !.text = new_text, !.line_indices = make_line_indices(new_text)]

\* the assignments that end make_change: lines 460-461
\* a make_change that marks the file changed and keeps its user data
make_change_keeping_data(self) == [self EXCEPT !.changed = TRUE]

make_change_done(self) ==
    [self EXCEPT !.changed = TRUE, !.user_data = None]

RECURSIVE make_change_from(_, _, _)
RECURSIVE make_change_next(_, _, _, _)
\* the loop of make_change from its i-th change on. The result is the File as
\* the call leaves it and how the call ended: a panic leaves the buffer with
\* the changes made so far and neither sets changed nor clears user_data.
make_change_from(self, changes, i) ==
    IF i > Len(changes) THEN [res |-> Ok(<<>>), file |-> make_change_done(self)]
    ELSE make_change_next(self, changes, i, change_new_text(self, changes[i]))

\* the body of the loop once new_text is computed: lines 456-457
make_change_next(self, changes, i, new_text) ==
    IF ~IsOk(new_text) THEN [res |-> Panic, file |-> self]
    ELSE make_change_from(set_text(self, new_text.val), changes, i + 1)

\* File::make_change
make_change(self, changes) == make_change_from(self, changes, 1)

(***************************************************************************)
(* VfsInternal<T, U>: the operations on the map.                           *)
(***************************************************************************)
Paths == {"foo", "bar"}

\* HashMap::insert and HashMap::remove on the map path -> File
Insert(m, p, f) == [q \in DOMAIN m \cup {p} |-> IF q = p THEN f ELSE m[q]]
Remove(m, p) == [q \in DOMAIN m \ {p} |-> m[q]]

\* Change::file
ChangeFile(c) == c.file

\* a coalescing that puts each change before the earlier changes of its file
coalesce_push_front(result, c) ==
    Insert(result, ChangeFile(c),
           <<c>> \o (IF ChangeFile(c) \in DOMAIN result THEN result[ChangeFile(c)]
                     ELSE <<>>))

\* result.entry(c.file()).or_insert(vec![]).push(c): line 396
coalesce_push(result, c) ==
    Insert(result, ChangeFile(c),
           (IF ChangeFile(c) \in DOMAIN result THEN result[ChangeFile(c)] ELSE <<>>)
               \o <<c>>)

RECURSIVE coalesce_from(_, _, _)
coalesce_from(result, changes, i) ==
    IF i > Len(changes) THEN result
    ELSE coalesce_from(coalesce_push(result, changes[i]), changes, i + 1)

\* coalesce_changes: the changes of each file, in the order of the batch
coalesce_changes(changes) == coalesce_from(<<>>, changes, 1)

\* the outcome of an operation: its result and the store it leaves
Outcome(res, fs, psn) == [res |-> res, files |-> fs, poisoned |-> psn]

\* a round of on_changes on a cached file once make_change returned r
cached_outcome(fs, path, r) ==
    Outcome(r.res, Insert(fs, path, r.file), ~IsOk(r.res))

\* one round of the loop of on_changes, for a file that is cached: lines
\* 245-249. The lock is held while make_change runs, so its panic poisons it.
on_changes_cached(fs, path, changes) ==
    cached_outcome(fs, path, make_change(fs[path], changes))

\* a round of on_changes on a file just read once make_change returned r
missed_outcome(fs, path, r) ==
    IF IsOk(r.res) THEN Outcome(r.res, Insert(fs, path, r.file), FALSE)
    ELSE Outcome(r.res, fs, FALSE)

\* one round of the loop of on_changes, for a file that is not cached: lines
\* 258-262. read is what T::read returns. The File is a local until it is
\* inserted, and no lock is held while make_change runs.
on_changes_missed(fs, path, changes, read) ==
    IF ~IsOk(read) THEN Outcome(read, fs, FALSE)
    ELSE missed_outcome(fs, path, make_change(read.val, changes))

\* one round of the loop of on_changes: lines 243-262
on_changes_round(fs, path, changes, read) ==
    IF path \in DOMAIN fs THEN on_changes_cached(fs, path, changes)
    ELSE on_changes_missed(fs, path, changes, read)

RECURSIVE on_changes_from(_, _, _, _, _)
RECURSIVE on_changes_next(_, _, _, _, _)
\* the loop of on_changes over the coalesced map, whose iteration order is
\* `order`; reads[path] is what T::read returns for path.
on_changes_from(fs, groups, order, reads, i) ==
    IF i > Len(order) THEN Outcome(Ok(<<>>), fs, FALSE)
    ELSE on_changes_next(groups, order, reads, i,
             on_changes_round(fs, order[i], groups[order[i]], reads[order[i]]))

\* `?`: an error or a panic of a round ends the call
on_changes_next(groups, order, reads, i, o) ==
    IF IsOk(o.res) THEN on_changes_from(o.files, groups, order, reads, i + 1)
    ELSE o

\* an on_changes that restores the store it started on when it fails
on_changes_all_or_nothing(fs, psn, changes, order, reads) ==
    IF changes = <<>> THEN Outcome(Ok(<<>>), fs, psn)
    ELSE IF psn THEN Outcome(Panic, fs, psn)
    ELSE IF IsOk(on_changes_from(fs, coalesce_changes(changes), order, reads, 1).res)
         THEN on_changes_from(fs, coalesce_changes(changes), order, reads, 1)
         ELSE Outcome(on_changes_from(fs, coalesce_changes(changes), order, reads, 1).res,
                      fs, FALSE)

\* VfsInternal::on_changes. Every files.lock().unwrap() panics once the lock
\* is poisoned; an empty batch takes no lock.
on_changes(fs, psn, changes, order, reads) ==
    IF changes = <<>> THEN Outcome(Ok(<<>>), fs, psn)
    ELSE IF psn THEN Outcome(Panic, fs, psn)
    ELSE on_changes_from(fs, coalesce_changes(changes), order, reads, 1)

\* HashMap::new
EmptyMap == [q \in {} |-> None]

\* no call in flight: each operation runs from its call to its return before
\* the next one starts
NoCalls == <<>>

\* the outcome o of an operation that starts with files.lock().unwrap(),
\* which panics when the lock is poisoned
locked(fs, psn, o) == IF psn THEN Outcome(Panic, fs, psn) ELSE o

\* VfsInternal::clear
clear(fs, psn) == locked(fs, psn, Outcome(Ok(<<>>), EmptyMap, FALSE))

\* a save that leaves the dirty flag as it is
saved_still_changed(f) == f

\* f.changed = false
saved(f) == [f EXCEPT !.changed = FALSE]

\* a file_saved that clears the dirty flag of every file
file_saved_all(fs, psn, path) ==
    locked(fs, psn, Outcome(Ok(<<>>), [q \in DOMAIN fs |-> saved(fs[q])], FALSE))

\* VfsInternal::file_saved
file_saved(fs, psn, path) ==
    locked(fs, psn,
           Outcome(Ok(<<>>),
                   IF path \in DOMAIN fs THEN Insert(fs, path, saved(fs[path])) ELSE fs,
                   FALSE))

\* VfsInternal::flush_file
flush_file(fs, psn, path) ==
    locked(fs, psn, Outcome(Ok(<<>>), Remove(fs, path), FALSE))

\* a file_is_synced that takes a file that is not cached for a synced one
file_is_synced_or_unknown(fs, psn, path) ==
    locked(fs, psn,
           Outcome(IF path \in DOMAIN fs THEN Ok(~fs[path].changed) ELSE Ok(TRUE),
                   fs, FALSE))

\* VfsInternal::file_is_synced
file_is_synced(fs, psn, path) ==
    locked(fs, psn,
           Outcome(IF path \in DOMAIN fs THEN Ok(~fs[path].changed)
                   ELSE Err("FileNotCached"),
                   fs, FALSE))

\* VfsInternal::set_file
set_file(fs, psn, path, text) ==
    locked(fs, psn,
           Outcome(Ok(<<>>),
                   Insert(fs, path, File(text, make_line_indices(text), TRUE, None)),
                   FALSE))

\* VfsInternal::get_cached_files
get_cached_files(fs, psn) ==
    locked(fs, psn, Outcome(Ok([q \in DOMAIN fs |-> fs[q].text]), fs, FALSE))

\* VfsInternal::get_changes
get_changes(fs, psn) ==
    locked(fs, psn,
           Outcome(Ok([q \in {r \in DOMAIN fs : fs[r].changed} |-> fs[q].text]),
                   fs, FALSE))

\* VfsInternal::has_changes
has_changes(fs, psn) ==
    locked(fs, psn, Outcome(Ok(\E q \in DOMAIN fs : fs[q].changed), fs, FALSE))

\* an ensure_file that caches an empty file when the read fails
ensure_file_or_empty(fs, path, read) ==
    IF path \in DOMAIN fs THEN Outcome(Ok(<<>>), fs, FALSE)
    ELSE IF ~IsOk(read) THEN Outcome(read, Insert(fs, path, from_text(<<>>)), FALSE)
    ELSE Outcome(Ok(<<>>), Insert(fs, path, read.val), FALSE)

\* VfsInternal::ensure_file; read is what T::read returns
ensure_file(fs, path, read) ==
    IF path \in DOMAIN fs THEN Outcome(Ok(<<>>), fs, FALSE)
    ELSE IF ~IsOk(read) THEN Outcome(read, fs, FALSE)
    ELSE Outcome(Ok(<<>>), Insert(fs, path, read.val), FALSE)

\* files[path].load_line(line), once ensure_file left the outcome o
line_of_ensured(o, path, line) ==
    IF ~IsOk(o.res) THEN o
    ELSE Outcome(load_line(o.files[path], line), o.files, FALSE)

\* VfsInternal::load_line
vfs_load_line(fs, psn, path, line, read) ==
    locked(fs, psn, line_of_ensured(ensure_file(fs, path, read), path, line))

\* files[path].text.clone(), once ensure_file left the outcome o
text_of_ensured(o, path) ==
    IF ~IsOk(o.res) THEN o
    ELSE Outcome(Ok(o.files[path].text), o.files, FALSE)

\* VfsInternal::load_file
load_file(fs, psn, path, read) ==
    locked(fs, psn, text_of_ensured(ensure_file(fs, path, read), path))

\* a write_file that clears the dirty flag whether T::write fails or not
write_file_clearing_anyway(fs, psn, path, written) ==
    locked(fs, psn,
           IF path \notin DOMAIN fs THEN Outcome(Err("FileNotCached"), fs, FALSE)
           ELSE Outcome(written, Insert(fs, path, saved(fs[path])), FALSE))

\* VfsInternal::write_file; written is what T::write returns
write_file(fs, psn, path, written) ==
    locked(fs, psn,
           IF path \notin DOMAIN fs THEN Outcome(Err("FileNotCached"), fs, FALSE)
           ELSE IF ~IsOk(written) THEN Outcome(written, fs, FALSE)
           ELSE Outcome(Ok(<<>>), Insert(fs, path, saved(fs[path])), FALSE))

\* the File that write_file hands to T::write, if it calls it: line 323, where
\* changed is not yet cleared
write_given(fs, psn, path) ==
    IF path \in DOMAIN fs /\ ~psn
    THEN Some([text |-> fs[path].text, changed |-> fs[path].changed])
    ELSE None

\* a set_user_data that marks the file changed
set_user_data_touching(fs, psn, path, data) ==
    locked(fs, psn,
           IF path \notin DOMAIN fs THEN Outcome(Err("FileNotCached"), fs, FALSE)
           ELSE Outcome(Ok(<<>>),
                        Insert(fs, path, [fs[path] EXCEPT !.user_data = data,
                                                           !.changed = TRUE]),
                        FALSE))

\* VfsInternal::set_user_data
set_user_data(fs, psn, path, data) ==
    locked(fs, psn,
           IF path \notin DOMAIN fs THEN Outcome(Err("FileNotCached"), fs, FALSE)
           ELSE Outcome(Ok(<<>>), Insert(fs, path, [fs[path] EXCEPT !.user_data = data]),
                        FALSE))

\* a with_user_data that erases the user data on any error of the closure
user_data_after_any_error(u, f) ==
    IF ~IsOk(f.ret) THEN None
    ELSE IF IsSome(u) /\ IsSome(f.put) THEN f.put
    ELSE u

\* The closure given to with_user_data is f = [ret, put]: it returns ret, and
\* when it is handed the user data it first stores put in it, if put is Some.
\* the user data after f ran on the user data u and returned: lines 353-360
user_data_after(u, f) ==
    IF f.ret = Err("NoUserDataForFile") THEN None
    ELSE IF IsSome(u) /\ IsSome(f.put) THEN f.put
    ELSE u

\* VfsInternal::with_user_data
with_user_data(fs, psn, path, f) ==
    locked(fs, psn,
           IF path \notin DOMAIN fs THEN Outcome(f.ret, fs, FALSE)
           ELSE Outcome(f.ret,
                        Insert(fs, path,
                               [fs[path] EXCEPT
                                   !.user_data = user_data_after(fs[path].user_data, f)]),
                        FALSE))

\* what with_user_data hands to the closure: lines 347-355
closure_arg(fs, path) ==
    IF path \notin DOMAIN fs THEN Err("FileNotCached")
    ELSE IF IsSome(fs[path].user_data)
         THEN Ok(<<fs[path].text, Unwrap(fs[path].user_data)>>)
         ELSE Err("NoUserDataForFile")

\* an ensure_user_data that returns every error of the closure
ensured_or_error(ret) ==
    IF IsOk(ret) THEN [user_data |-> Some(ret.val), res |-> Ok(<<>>)]
    ELSE [user_data |-> None, res |-> ret]

\* the user data and the result of ensure_user_data when the closure, called
\* on a file without user data, returned ret: lines 372-382
ensured(ret) ==
    IF IsOk(ret) THEN [user_data |-> Some(ret.val), res |-> Ok(<<>>)]
    ELSE IF ret = Err("NoUserDataForFile") THEN [user_data |-> None, res |-> Ok(<<>>)]
    ELSE [user_data |-> None, res |-> ret]

\* an ensure_user_data that hands the text to the closure whether the file
\* has user data or not
ensure_closure_arg_always(fs, path) == Some(fs[path].text)

\* the text ensure_user_data hands to the closure, if it calls it: lines
\* 371-372, for a cached file without user data
ensure_closure_arg(fs, path) ==
    IF path \in DOMAIN fs /\ ~IsSome(fs[path].user_data) THEN Some(fs[path].text)
    ELSE None

\* an ensure_user_data that calls the closure whether there is user data or not
ensure_user_data_always(fs, psn, path, ret) ==
    locked(fs, psn,
           IF path \notin DOMAIN fs THEN Outcome(Err("FileNotCached"), fs, FALSE)
           ELSE Outcome(ensured(ret).res,
                        Insert(fs, path,
                               [fs[path] EXCEPT !.user_data = ensured(ret).user_data]),
                        FALSE))

\* VfsInternal::ensure_user_data; ret is what the closure returns if called
ensure_user_data(fs, psn, path, ret) ==
    locked(fs, psn,
           IF path \notin DOMAIN fs THEN Outcome(Err("FileNotCached"), fs, FALSE)
           ELSE IF IsSome(fs[path].user_data) THEN Outcome(Ok(<<>>), fs, FALSE)
           ELSE Outcome(ensured(ret).res,
                        Insert(fs, path,
                               [fs[path] EXCEPT !.user_data = ensured(ret).user_data]),
                        FALSE))

\* the orders in which a HashMap with the keys ks may be iterated
RECURSIVE Orders(_)
Orders(ks) ==
    IF ks = {} THEN {<<>>}
    ELSE UNION {{<<k>> \o o : o \in Orders(ks \ {k})} : k \in ks}

(***************************************************************************)
(* What a position of a text means, stated from the text alone: the        *)
(* properties below compare the code's results with these.                 *)
(***************************************************************************)
\* the number of newline bytes among the first i bytes of t
NewlinesBefore(t, i) == Cardinality({k \in 1 .. i : t[k] = NewLine})
\* the number of lines of t: one more than its newline bytes, the last line
\* being what follows the last newline (empty when t ends with a newline)
LineCount(t) == NewlinesBefore(t, Len(t)) + 1
\* the offset at which line l of t starts, for l < LineCount(t)
LineStart(t, l) ==
    CHOOSE i \in 0 .. Len(t) :
        /\ NewlinesBefore(t, i) = l
        /\ \A j \in 0 .. Len(t) : NewlinesBefore(t, j) = l => i <= j
\* the offset just after line l of t, its newline included
LineEnd(t, l) == IF l + 1 < LineCount(t) THEN LineStart(t, l + 1) ELSE Len(t)
\* the number of characters of t that start in [a, b)
CharsIn(t, a, b) == Cardinality({k \in a + 1 .. b : ~IsContinuation(t[k])})
\* (l, c) is a position of t: a line of t, and a character column of that line
\* or the column one past its last character
Resolves(t, l, c) ==
    /\ l < LineCount(t)
    /\ c <= CharsIn(t, LineStart(t, l), LineEnd(t, l))
\* the byte offset of the position (l, c) of t
ByteOf(t, l, c) ==
    CHOOSE j \in LineStart(t, l) .. LineEnd(t, l) :
        /\ IsCharBoundary(t, j)
        /\ CharsIn(t, LineStart(t, l), j) = c
\* the number of characters of t before the position (l, c)
CharOf(t, l, c) == CharsIn(t, 0, LineStart(t, l)) + c

(***************************************************************************)
(* The inputs of the model.                                                *)
(***************************************************************************)
\* the largest row, column and length of a span: one past what any text of
\* the model has
MaxPos == MaxLen + 1
Positions == 0 .. MaxPos
\* the replacement texts of a ReplaceText
Replacements == {<<>>, CharB}
\* the len of a ReplaceText: a u64, so it may exceed what a u32 column holds
Lens == {None} \cup {Some(U64(0, n)) : n \in Positions} \cup {Some(U64(1, 0))}

\* every ReplaceText on file whose span is given by both of its ends
EndModeChanges(file) ==
    {ReplaceText(file, r1, c1, r2, c2, None, t) :
        r1 \in Positions, c1 \in Positions, r2 \in Positions, c2 \in Positions,
        t \in Replacements}

\* every ReplaceText on file with a len, the end of its span being either
\* corner of the grid of positions
LenModeChanges(file) ==
    {ReplaceText(file, r1, c1, e, e, n, t) :
        r1 \in Positions, c1 \in Positions, e \in {0, MaxPos},
        n \in Lens \ {None}, t \in Replacements}

(***************************************************************************)
(* SpecEdit: one ReplaceText through on_changes, on a store that holds one *)
(* file as the loader read it, over every text and every span.             *)
(***************************************************************************)
InitEdit ==
    /\ files \in {EmptyMap} \cup {[p \in {"foo"} |-> from_text(t)] : t \in Texts}
    /\ poisoned = FALSE
    /\ last = [op |-> "new"]
    /\ calls = NoCalls

\* the store and the record of the operation that an operation leaves
Leave(o, record) ==
    /\ files' = o.files
    /\ poisoned' = o.poisoned
    /\ last' = record
    /\ calls' = calls

\* the record of an on_changes call: the batch, the store it ran on, the
\* order of its loop, what the loader returns and the result
OnChangesRecord(changes, order, reads, res) ==
    [op |-> "on_changes", changes |-> changes, pre |-> files,
     order |-> order, reads |-> reads, res |-> res]

LeaveRecorded(o, changes, order, reads) ==
    Leave(o, OnChangesRecord(changes, order, reads, o.res))

\* on_changes(changes), recorded in full
OnChangesRecorded(changes, order, reads) ==
    LeaveRecorded(on_changes(files, poisoned, changes, order, reads),
                  changes, order, reads)

\* the loader fails every read
NoReads == [p \in Paths |-> Err("Io")]

\* on_changes(&[c])
OnChangesOne(c) == OnChangesRecorded(<<c>>, <<ChangeFile(c)>>, NoReads)

\* the store is as drawn: no operation ran on it yet
Fresh == last.op = "new"

EditEndMode ==
    /\ Fresh
    /\ "foo" \in DOMAIN files
    /\ \E c \in EndModeChanges("foo") : OnChangesOne(c)

EditLenMode ==
    /\ Fresh
    /\ "foo" \in DOMAIN files
    /\ \E c \in LenModeChanges("foo") : OnChangesOne(c)

\* the record of a load: miss tells that the path was not cached
LeaveLoad(o, op, path, line) ==
    Leave(o, [op |-> op, path |-> path, line |-> line, res |-> o.res,
              miss |-> path \notin DOMAIN files])

\* load_line("foo", line) on the file of the store, or on any text read
LoadLineOne ==
    /\ Fresh
    /\ \E line \in Positions :
         \E read \in IF "foo" \in DOMAIN files THEN {Err("Io")}
                     ELSE {Ok(from_text(t)) : t \in Texts} :
             LeaveLoad(vfs_load_line(files, poisoned, "foo", line, read),
                       "load_line", "foo", line)

NextEdit == EditEndMode \/ EditLenMode \/ LoadLineOne

SpecEdit == InitEdit /\ [][NextEdit]_vars

(***************************************************************************)
(* Spec: the operations of the store, from VfsInternal::new on.            *)
(***************************************************************************)
\* the text the loader reads for any path: a two-byte character, a newline
\* and a last line that no newline ends
LoaderText == CharE \o CharNL \o CharA
\* what T::read returns: the file as read, or an Io error
ReadResults == {Err("Io"), Ok(from_text(LoaderText))}
\* what T::write returns
WriteResults == {Err("Io"), Ok(<<>>)}
\* the texts given to set_file
SetTexts == {CharA \o CharNL}
\* the user data given to set_user_data and returned by the closures
UserData == {42}
\* what the closure given to ensure_user_data returns
ClosureResults ==
    {Ok(u) : u \in UserData} \cup {Err("NoUserDataForFile"), Err("BadLocation")}
\* the closures given to with_user_data: what each returns and stores
Closures ==
    {[ret |-> r, put |-> None] :
        r \in {Ok(<<>>), Err("NoUserDataForFile"), Err("BadLocation")}}

\* the changes on file given to on_changes: a new text, the first character
\* of line 0 replaced, the first character of line 1 deleted by length. None
\* makes a text longer; each fails on the texts that lack the character.
StoreChanges(file) ==
    {AddFile(file, CharB),
     ReplaceText(file, 0, 0, 0, 1, None, CharB),
     ReplaceText(file, 1, 0, 0, 0, Some(U64(0, 1)), <<>>)}

\* the lines given to load_line: those of the longest text, and the next
StoreLines == 0 .. LineCount(LoaderText)

\* the batches given to on_changes: a change, or a change for each of two files
StoreBatches ==
    {<<c>> : c \in UNION {StoreChanges(p) : p \in Paths}}
        \cup {<<c, d>> : c \in StoreChanges("foo"), d \in StoreChanges("bar")}

\* the files of a batch
BatchFiles(changes) == {ChangeFile(changes[i]) : i \in 1 .. Len(changes)}

\* the cached files that have user data
WithData(fs) == {q \in DOMAIN fs : IsSome(fs[q].user_data)}

\* what the loader returns for each path: it is read only if the path is in
\* `missing`
ReadsFor(missing) ==
    {reads \in [Paths -> ReadResults] :
        \A q \in Paths \ missing : reads[q] = Err("Io")}

Init ==
    /\ files = EmptyMap
    /\ poisoned = FALSE
    /\ last = [op |-> "new"]
    /\ calls = NoCalls

\* the record of an operation on path
Record(op, path, res) == [op |-> op, path |-> path, res |-> res]

LeaveOp(o, op, path) == Leave(o, Record(op, path, o.res))

\* the record of a change of text: the files it was for, and those among the
\* cached files that had user data before
LeaveChange(o, op, paths) ==
    Leave(o, [op |-> op, paths |-> paths, res |-> o.res,
              had |-> paths \cap WithData(files)])

\* the record of write_file: the text and the dirty flag T::write was given
LeaveWrite(o, path) ==
    Leave(o, [op |-> "write_file", path |-> path, res |-> o.res,
              given |-> write_given(files, poisoned, path)])

\* the record of an operation that runs a closure: what the closure returns
\* when it is called, and whether the file had user data before
LeaveData(o, op, path, ret) ==
    Leave(o, [op |-> op, path |-> path, res |-> o.res, ret |-> ret,
              had |-> path \in WithData(files)])

Clear == LeaveOp(clear(files, poisoned), "clear", "")

FileSaved == \E path \in Paths :
    LeaveOp(file_saved(files, poisoned, path), "file_saved", path)

FlushFile == \E path \in Paths :
    LeaveOp(flush_file(files, poisoned, path), "flush_file", path)

FileIsSynced == \E path \in Paths :
    LeaveOp(file_is_synced(files, poisoned, path), "file_is_synced", path)

OnChanges == \E changes \in StoreBatches :
    \E order \in Orders(BatchFiles(changes)) :
        \E reads \in ReadsFor(BatchFiles(changes) \ DOMAIN files) :
            LeaveChange(on_changes(files, poisoned, changes, order, reads),
                        "on_changes", BatchFiles(changes))

SetFile == \E path \in Paths, text \in SetTexts :
    LeaveChange(set_file(files, poisoned, path, text), "set_file", {path})

GetCachedFiles == LeaveOp(get_cached_files(files, poisoned), "get_cached_files", "")

GetChanges == LeaveOp(get_changes(files, poisoned), "get_changes", "")

HasChanges == LeaveOp(has_changes(files, poisoned), "has_changes", "")

LoadLine == \E path \in Paths, line \in StoreLines :
    \E reads \in ReadsFor({path} \ DOMAIN files) :
        LeaveLoad(vfs_load_line(files, poisoned, path, line, reads[path]),
                  "load_line", path, line)

LoadFile == \E path \in Paths :
    \E reads \in ReadsFor({path} \ DOMAIN files) :
        LeaveLoad(load_file(files, poisoned, path, reads[path]), "load_file", path, 0)

WriteFile == \E path \in Paths, written \in WriteResults :
    LeaveWrite(write_file(files, poisoned, path, written), path)

SetUserData == \E path \in Paths, data \in {None} \cup {Some(u) : u \in UserData} :
    LeaveOp(set_user_data(files, poisoned, path, data), "set_user_data", path)

WithUserData == \E path \in Paths, f \in Closures :
    LeaveData(with_user_data(files, poisoned, path, f), "with_user_data", path, f.ret)

EnsureUserData == \E path \in Paths, ret \in ClosureResults :
    LeaveData(ensure_user_data(files, poisoned, path, ret), "ensure_user_data", path,
              ret)

Next ==
    \/ Clear
    \/ FileSaved
    \/ FlushFile
    \/ FileIsSynced
    \/ OnChanges
    \/ SetFile
    \/ GetCachedFiles
    \/ GetChanges
    \/ HasChanges
    \/ LoadLine
    \/ LoadFile
    \/ WriteFile
    \/ SetUserData
    \/ WithUserData
    \/ EnsureUserData

Spec == Init /\ [][Next]_vars

\* the text of file before the operation that ran last
PreText(file) == last.pre[file].text

(***************************************************************************)
(* SpecBatch: one on_changes of a batch of up to MaxBatch changes, on      *)
(* every store of files as the loader read them.                           *)
(***************************************************************************)
\* the texts of the files the store holds before the batch
BatchTexts == {CharA, CharE \o CharNL}

\* the insertion of text at (0, 0) of file
InsertAtStart(file, text) == ReplaceText(file, 0, 0, 0, 0, None, text)
\* the deletion of the second character of line 0 of file
DeleteSecond(file) == ReplaceText(file, 0, 1, 0, 2, None, <<>>)

\* the changes on file in a batch
BatchChanges(file) ==
    {AddFile(file, CharA), InsertAtStart(file, CharA), InsertAtStart(file, CharB),
     DeleteSecond(file)}

RECURSIVE SeqsUpTo(_, _)
\* the sequences of at most n elements of S
SeqsUpTo(S, n) ==
    IF n = 0 THEN {<<>>}
    ELSE SeqsUpTo(S, n - 1)
             \cup {Append(q, x) : q \in {r \in SeqsUpTo(S, n - 1) : Len(r) = n - 1},
                                  x \in S}

Batches == SeqsUpTo(UNION {BatchChanges(p) : p \in Paths}, MaxBatch) \ {<<>>}

\* the files the store holds before the batch: as read, and one of them with
\* user data set since
BatchStored ==
    {from_text(t) : t \in BatchTexts}
        \cup {[from_text(CharA) EXCEPT !.user_data = Some(d)] : d \in UserData}

InitBatch ==
    /\ files \in UNION {[ps -> BatchStored] : ps \in SUBSET Paths}
    /\ poisoned = FALSE
    /\ last = [op |-> "new"]
    /\ calls = NoCalls

OnChangesBatch ==
    /\ Fresh
    /\ \E changes \in Batches :
         \E order \in Orders(BatchFiles(changes)) :
             \E reads \in ReadsFor(BatchFiles(changes) \ DOMAIN files) :
                 OnChangesRecorded(changes, order, reads)

NextBatch == OnChangesBatch

SpecBatch == InitBatch /\ [][NextBatch]_vars

(***************************************************************************)
(* Claims on one ReplaceText (SpecEdit).                                   *)
(***************************************************************************)
\* the span of the ReplaceText c does not resolve in the text t: its start, or
\* its end when it has no len, is no position of t, or its len runs past the
\* end of t
Unresolved(t, c) ==
    \/ ~Resolves(t, c.row_start, c.col_start)
    \/ c.len = None /\ ~Resolves(t, c.row_end, c.col_end)
    \/ /\ c.len # None
       /\ Resolves(t, c.row_start, c.col_start)
       /\ \/ Unwrap(c.len).hi > 0
          \/ CharOf(t, c.row_start, c.col_start) + Unwrap(c.len).lo
                 > CharsIn(t, 0, Len(t))

\* C3: a ReplaceText whose start, end or len-derived end does not resolve in
\* the buffer makes on_changes return Err(BadLocation): no panic, no clamping.
C3_BadLocationIsTypedError ==
    last.op = "on_changes" =>
        (Unresolved(PreText(last.changes[1].file), last.changes[1])
            => last.res = Err("BadLocation"))

\* the text "foo\nHello\nWorld\nHello, World!\n" of the tests, and what
\* test_changes expects of the change (1,1)-(1,4) "foo" on it
FooText ==
    <<102, 111, 111, 10, 72, 101, 108, 108, 111, 10, 87, 111, 114, 108, 100, 10,
      72, 101, 108, 108, 111, 44, 32, 87, 111, 114, 108, 100, 33, 10>>
FooChangedText ==
    <<102, 111, 111, 10, 72, 102, 111, 111, 111, 10, 87, 111, 114, 108, 100, 10,
      72, 101, 108, 108, 111, 44, 32, 87, 111, 114, 108, 100, 33, 10>>
FooChange == ReplaceText("foo", 1, 1, 1, 4, None, <<102, 111, 111>>)

\* the text T[0:start] + replacement + T[end:] for the span of c on t
Spliced(t, c) ==
    Slice(t, 0, ByteOf(t, c.row_start, c.col_start)) \o c.text
        \o Slice(t, ByteOf(t, c.row_end, c.col_end), Len(t))

\* C7 for the change c of the operation that ran last
EditResultOf(c) ==
    /\ (Resolves(PreText(c.file), c.row_start, c.col_start)
            /\ Resolves(PreText(c.file), c.row_end, c.col_end)) <=> IsOk(last.res)
    /\ IsOk(last.res) => files[c.file].text = Spliced(PreText(c.file), c)

\* C7: a successful ReplaceText with no len turns the text T into
\* T[0:start] + replacement + T[end:], start and end being the byte offsets
\* of the character columns of its span; a column equal to the character
\* length of the line is valid; the example of test_changes gives its text.
C7_EditResult ==
    /\ (last.op = "on_changes" /\ last.changes[1].len = None)
           => EditResultOf(last.changes[1])
    /\ last.op = "new" =>
           make_change(from_text(FooText), <<FooChange>>).file.text = FooChangedText

\* an edit on a line that starts with the two-byte character: the span runs
\* from past it to the column one past the end of the line
C7_Witness ==
    /\ last.op = "on_changes" /\ IsOk(last.res)
    /\ last.changes[1] = ReplaceText("foo", 0, 1, 0, 2, None, CharB)
    /\ PreText("foo") = CharE \o CharA
    /\ files["foo"].text = CharE \o CharB

\* the same change as c, its span ending at (row_end, col_end), with length len
WithEnd(c, row_end, col_end, len) ==
    [c EXCEPT !.row_end = row_end, !.col_end = col_end, !.len = len]

\* what on_changes(&[c]) does on the store the last operation ran on
Rerun(c) == on_changes(last.pre, FALSE, <<c>>, <<ChangeFile(c)>>, NoReads)

\* the store and the result the last operation left are those of the outcome o
SameAs(o) == o.files = files /\ o.res = last.res

\* (row_end, col_end) is the position of t that is n characters after the
\* start of the span of c
EndAfter(t, c, n, row_end, col_end) ==
    /\ Resolves(t, c.row_start, c.col_start)
    /\ Resolves(t, row_end, col_end)
    /\ CharOf(t, row_end, col_end) = CharOf(t, c.row_start, c.col_start) + n

\* C8 for the change c, with a len, of the operation that ran last
LenEndEquivalenceOf(c) ==
    /\ \A row_end \in {0, MaxPos}, col_end \in {0, MaxPos} :
           SameAs(Rerun(WithEnd(c, row_end, col_end, c.len)))
    /\ \A row_end \in Positions, col_end \in Positions :
           (Unwrap(c.len).hi = 0
                /\ EndAfter(PreText(c.file), c, Unwrap(c.len).lo, row_end, col_end))
               => SameAs(Rerun(WithEnd(c, row_end, col_end, None)))

\* C8: a ReplaceText with len = Some(n) gives the text that the ReplaceText
\* with no len gives whose end is the position n characters after the start;
\* with a len, the end of the span has no influence.
C8_LenEndEquivalence ==
    (last.op = "on_changes" /\ last.changes[1].len # None)
        => LenEndEquivalenceOf(last.changes[1])

\* two characters replaced by length, a two-byte one and the newline after it
C8_Witness ==
    /\ last.op = "on_changes" /\ IsOk(last.res)
    /\ last.changes[1] = ReplaceText("foo", 0, 0, 0, 0, Some(U64(0, 2)), CharB)
    /\ PreText("foo") = CharE \o CharNL
    /\ files["foo"].text = CharB
    /\ EndAfter(PreText("foo"), last.changes[1], 2, 1, 0)

\* C9: load_line with a line number beyond the last line of the file fails
\* with BadLocation, whatever the text; it never returns Ok for such a line.
\* The lines of a text are those of its line index: one more than its newline
\* bytes, the last being what follows the last newline.
C9_OutOfRangeLine ==
    (last.op = "load_line" /\ last.path \in DOMAIN files)
        => (last.line >= LineCount(files[last.path].text)
                => last.res = Err("BadLocation"))

\* the line past the empty last line of a text that a newline ends
C9_Witness ==
    /\ last.op = "load_line" /\ ~last.miss
    /\ files["foo"].text = CharA \o CharNL
    /\ last.line = 2
    /\ last.res = Err("BadLocation")

(***************************************************************************)
(* Claims on the operations of the store (Spec).                           *)
(***************************************************************************)
\* the operation that ran last changed texts and returned Ok
ChangedText == last.op \in {"on_changes", "set_file"} /\ IsOk(last.res)

\* C1: after a successful on_changes or set_file, each file it was for is
\* cached without user data, and with_user_data on it hands NoUserDataForFile
\* to the closure, whatever user data the file had before.
C1_UserDataInvalidation ==
    ChangedText =>
        \A path \in last.paths :
            /\ path \in DOMAIN files
            /\ files[path].user_data = None
            /\ closure_arg(files, path) = Err("NoUserDataForFile")

\* an edit of a file that had user data
C1_Witness ==
    /\ last.op = "on_changes" /\ IsOk(last.res)
    /\ last.had = {"foo"}
    /\ files["foo"].text = CharB \o CharNL \o CharA
    /\ closure_arg(files, "foo") = Err("NoUserDataForFile")

\* file_is_synced says the file is dirty or not, and has_changes and
\* get_changes count it or not
IsDirty(path, dirty) ==
    /\ path \in DOMAIN files
    /\ files[path].changed = dirty
    /\ file_is_synced(files, poisoned, path).res = Ok(~dirty)
    /\ (path \in DOMAIN get_changes(files, poisoned).res.val) = dirty
    /\ dirty => has_changes(files, poisoned).res = Ok(TRUE)

\* C2: a file just loaded through the loader on a cache miss is not dirty;
\* after a successful on_changes on it, it is dirty; after file_saved on it or
\* a successful write_file on it, it is not dirty.
C2_DirtyTracking ==
    /\ (last.op \in {"load_file", "load_line"} /\ last.miss /\ last.path \in DOMAIN files)
           => IsDirty(last.path, FALSE)
    /\ (last.op = "on_changes" /\ IsOk(last.res))
           => \A path \in last.paths : IsDirty(path, TRUE)
    /\ (last.op = "file_saved" /\ IsOk(last.res) /\ last.path \in DOMAIN files)
           => IsDirty(last.path, FALSE)
    /\ (last.op = "write_file" /\ IsOk(last.res)) => IsDirty(last.path, FALSE)

\* file_saved on a file that was loaded and then edited
C2_Witness ==
    /\ last.op = "file_saved" /\ IsOk(last.res) /\ last.path = "foo"
    /\ "foo" \in DOMAIN files
    /\ files["foo"].text = CharB \o CharNL \o CharA
    /\ IsDirty("foo", FALSE)

\* C5: after an on_changes failed on a location that does not resolve, the
\* store stays usable: the operations that follow do what they do on a store
\* that saw no failure, where none of them panics.
C5_BadLocationIsRecoverable ==
    last.op \notin {"new", "on_changes"} => last.res # Panic

\* the line `line` of the text t, with the newline that ends it
LineOf(t, line) == Slice(t, LineStart(t, line), LineEnd(t, line))

\* "Hello\n" and "Hello, World!\n"
FooLine1 == <<72, 101, 108, 108, 111, 10>>
FooLine3 == <<72, 101, 108, 108, 111, 44, 32, 87, 111, 114, 108, 100, 33, 10>>

\* C10 for load_line(path, line) when it ran last on a store that works
LoadLineOf(path, line) ==
    /\ (last.miss /\ path \notin DOMAIN files) => last.res = Err("Io")
    /\ (last.miss /\ path \in DOMAIN files) => files[path] = from_text(LoaderText)
    /\ path \in DOMAIN files =>
           /\ IsOk(last.res) <=> line < LineCount(files[path].text)
           /\ IsOk(last.res) => last.res.val = LineOf(files[path].text, line)

\* C10: load_line on a line in range returns the bytes of the current text
\* from the start of the line to the start of the next, the newline included;
\* it reads the file through the loader on a cache miss and returns the text
\* as edited in memory when the file is cached; line 1 of the text of the
\* tests is "Hello\n" and line 3 is "Hello, World!\n".
C10_LoadLine ==
    /\ (last.op = "load_line" /\ last.res # Panic) => LoadLineOf(last.path, last.line)
    /\ last.op = "new" =>
           /\ load_line(from_text(FooText), 1) = Ok(FooLine1)
           /\ load_line(from_text(FooText), 3) = Ok(FooLine3)

\* line 0 of a cached file whose first character was replaced in memory
C10_Witness ==
    /\ last.op = "load_line" /\ ~last.miss /\ last.path = "foo" /\ last.line = 0
    /\ files["foo"].text = CharB \o CharNL \o CharA
    /\ files["foo"].changed
    /\ last.res = Ok(CharB \o CharNL)

(***************************************************************************)
(* Claims on one batch (SpecBatch).                                        *)
(***************************************************************************)
\* the file `path` as on_changes finds it: cached, or as the loader reads it
BatchStart(path) ==
    IF path \in DOMAIN last.pre THEN Some(last.pre[path])
    ELSE IF IsOk(last.reads[path]) THEN Some(last.reads[path].val)
    ELSE None

\* the first k changes of the batch that ran last, made on the file f
AfterFirst(f, k) == make_change(f, SubSeq(last.changes, 1, k))

\* the k-th change of the batch is the first that fails on f, on a location
\* that does not resolve in the text the changes before it left
FailsAt(f, k) ==
    /\ IsOk(AfterFirst(f, k - 1).res)
    /\ last.changes[k].kind = "ReplaceText"
    /\ Unresolved(AfterFirst(f, k - 1).file.text, last.changes[k])

\* C4 for a batch whose changes are all for path, the file being f before
PartialApplicationOf(path, f) ==
    \A k \in 2 .. Len(last.changes) :
        FailsAt(f, k) =>
            /\ last.res = Err("BadLocation")
            /\ path \in DOMAIN files
            /\ files[path].text = AfterFirst(f, k - 1).file.text

\* C4: when a later edit of a batch of edits for one file fails on its
\* location, on_changes returns BadLocation and the store holds the file with
\* the edits before the failing one applied, for a file that was cached and
\* for a file that the batch loaded.
C4_PartialApplication ==
    last.op = "on_changes" =>
        \A path \in Paths :
            (BatchFiles(last.changes) = {path} /\ IsSome(BatchStart(path)))
                => PartialApplicationOf(path, Unwrap(BatchStart(path)))

RECURSIVE OneByOne(_, _, _)
\* the outcome of the changes from the i-th on, each given to an on_changes
\* of its own, on the store of the outcome o; the loader reads last.reads
OneByOne(o, changes, i) ==
    IF i > Len(changes) \/ ~IsOk(o.res) THEN o
    ELSE OneByOne(on_changes(o.files, o.poisoned, <<changes[i]>>,
                             <<ChangeFile(changes[i])>>, last.reads),
                  changes, i + 1)

\* the changes of the batch that ran last that are for path
ChangesFor(path) == SelectSeq(last.changes, LAMBDA c : ChangeFile(c) = path)

\* the batch that ran last left what its changes leave when each is given to
\* an on_changes of its own
AsOneByOne ==
    SameAs(OneByOne(Outcome(Ok(<<>>), last.pre, FALSE), last.changes, 1))

\* the batch that ran last inserted `first` and then `second` at (0, 0) of
\* path, and the text of path is `text` before what it was
InsertedTwice(path, first, second, text) ==
    (/\ path \in DOMAIN last.pre
     /\ ChangesFor(path) = <<InsertAtStart(path, first), InsertAtStart(path, second)>>)
        => files[path].text = text \o last.pre[path].text

Edited(path) == make_change(Unwrap(BatchStart(path)), ChangesFor(path))

\* the round of the batch for path ends well: the file is cached or read, and
\* every change for it is made
RoundOk(path) == IsSome(BatchStart(path)) /\ IsOk(Edited(path).res)

\* the store holds path with all its changes of the batch made: the text
\* changed, the file dirty, no user data
Kept(path) ==
    /\ path \in DOMAIN files
    /\ files[path].text = Edited(path).file.text
    /\ files[path].changed
    /\ files[path].user_data = None

\* the store holds path, or not, as before the batch
Untouched(path) ==
    /\ path \in DOMAIN files <=> path \in DOMAIN last.pre
    /\ path \in DOMAIN files => files[path] = last.pre[path]

\* C11 for a batch whose round for the k-th file of last.order is the first
\* that fails
NoRollbackAt(k) ==
    /\ ~IsOk(last.res)
    /\ \A i \in 1 .. k - 1 : Kept(last.order[i])
    /\ \A i \in k + 1 .. Len(last.order) : Untouched(last.order[i])
    /\ BatchStart(last.order[k]) = None => last.res = Err("Io")

LoadOf(path) == last'.op \in {"load_file", "load_line"} /\ last'.path = path

\* the step may add path to the store: a set_file, on_changes or load of path
MayAdd(path) ==
    \/ last'.op \in {"set_file", "on_changes"} /\ path \in last'.paths
    \/ LoadOf(path)

\* the step may remove path from the store: flush_file of path, or clear
MayRemove(path) ==
    \/ last'.op = "flush_file" /\ last'.path = path
    \/ last'.op = "clear"

\* C12 for one step
EntryLifecycleStep ==
    /\ \A path \in Paths :
           /\ (path \notin DOMAIN files /\ path \in DOMAIN files') => MayAdd(path)
           /\ (path \in DOMAIN files /\ path \notin DOMAIN files') => MayRemove(path)
    /\ (last'.op \in {"load_file", "load_line"} /\ last'.res = Err("Io"))
           => DOMAIN files' = DOMAIN files

\* C12: in every sequence of operations a path becomes cached only by a
\* set_file, on_changes or load of that path and stops being cached only by
\* flush_file of that path or clear; no other operation adds or removes an
\* entry, and a load whose read fails adds none.
C12_EntryLifecycle == [][EntryLifecycleStep]_vars

\* flush_file removed "foo" and left "bar", which was loaded
C12_Witness ==
    /\ last.op = "flush_file" /\ last.path = "foo"
    /\ DOMAIN files = {"bar"}
    /\ files["bar"] = from_text(LoaderText)

\* the step is the operation op on path, which is cached, on a store that works
StepOnCached(op, path) ==
    /\ last'.op = op /\ last'.path = path
    /\ path \in DOMAIN files /\ ~poisoned

\* the store after the step is the store before it with the file f at path
OnlyFile(path, f) == files' = Insert(files, path, f)

\* C13 for write_file(path) on a cached path
WriteFileStep(path) ==
    /\ last'.given = Some([text |-> files[path].text, changed |-> files[path].changed])
    /\ last'.res \in {Ok(<<>>), Err("Io")}
    /\ IsOk(last'.res) =>
           /\ OnlyFile(path, [files[path] EXCEPT !.changed = FALSE])
           /\ path \notin DOMAIN get_changes(files', poisoned').res.val
           /\ path \in DOMAIN get_cached_files(files', poisoned').res.val
    /\ last'.res = Err("Io") => files' = files

\* C13: write_file on a cached path hands T::write the text of the file with
\* the dirty flag as it was, and clears the flag only when the write returned
\* Ok: the file is then not in get_changes and still in get_cached_files. When
\* the write fails, Err(Io) is returned and the file is as it was.
C13_WriteFile ==
    [][\A path \in Paths : StepOnCached("write_file", path) => WriteFileStep(path)]_vars

\* T::write was given the edited text, marked dirty, and the flag is clear
C13_Witness ==
    /\ last.op = "write_file" /\ last.path = "foo" /\ IsOk(last.res)
    /\ last.given = Some([text |-> CharB \o CharNL \o CharA, changed |-> TRUE])
    /\ files["foo"].text = CharB \o CharNL \o CharA
    /\ ~files["foo"].changed

\* C14: with_user_data on a path that is not cached returns
\* Err(FileNotCached), whatever the closure returns; for a cached path the
\* closure is given the text and the user data, or NoUserDataForFile.
C14_WithUserDataNotCached ==
    (last.op = "with_user_data" /\ ~poisoned) =>
        IF last.path \in DOMAIN files
        THEN closure_arg(files, last.path) # Err("FileNotCached")
        ELSE /\ closure_arg(files, last.path) = Err("FileNotCached")
             /\ last.res = Err("FileNotCached")

\* C15 for with_user_data(path, f) on a cached path, f returning last'.ret
WithUserDataStep(path) ==
    /\ last'.res = last'.ret
    /\ OnlyFile(path, [files[path] EXCEPT !.user_data = files'[path].user_data])
    /\ IF last'.ret = Err("NoUserDataForFile")
       THEN files'[path].user_data = None
       ELSE IsSome(files'[path].user_data) = IsSome(files[path].user_data)

\* C15: when the closure given to with_user_data on a cached path returns
\* Err(NoUserDataForFile), the file has no user data afterwards, also when it
\* had some, and its text and dirty flag are as before; when the closure
\* returns anything else, the store does not clear the user data.
C15_WithUserDataErases ==
    [][\A path \in Paths :
           StepOnCached("with_user_data", path) => WithUserDataStep(path)]_vars

\* the closure returned NoUserDataForFile on an edited file that had user data
C15_Witness ==
    /\ last.op = "with_user_data" /\ last.path = "foo"
    /\ last.ret = Err("NoUserDataForFile") /\ last.had
    /\ files["foo"] = File(CharB \o CharNL \o CharA,
                           make_line_indices(CharB \o CharNL \o CharA), TRUE, None)

\* the step leaves the store as it was and returns res
NoOp(res) == files' = files /\ last'.res = res

\* C16 for ensure_user_data(path, f) on a cached file without user data, f
\* returning last'.ret
EnsureAbsentStep(path) ==
    /\ ensure_closure_arg(files, path) = Some(files[path].text)
    /\ IF IsOk(last'.ret)
       THEN /\ OnlyFile(path, [files[path] EXCEPT !.user_data = Some(last'.ret.val)])
            /\ last'.res = Ok(<<>>)
       ELSE IF last'.ret = Err("NoUserDataForFile") THEN NoOp(Ok(<<>>))
       ELSE NoOp(last'.ret)

\* C16 for ensure_user_data(path, f) on a cached path
EnsureUserDataStep(path) ==
    IF IsSome(files[path].user_data)
    THEN ensure_closure_arg(files, path) = None /\ NoOp(Ok(<<>>))
    ELSE EnsureAbsentStep(path)

EnsuredNoData ==
    /\ last.op = "ensure_user_data" /\ last.ret = Err("NoUserDataForFile")
    /\ last.path \in DOMAIN files /\ ~poisoned

StepOnUnknown(op, path) ==
    /\ last'.op = op /\ last'.path = path
    /\ path \notin DOMAIN files /\ ~poisoned

\* the operations that need a cached file
NeedCached == {"file_is_synced", "write_file", "set_user_data", "ensure_user_data"}

\* C18 for one path
NotCachedStep(path) ==
    /\ \A op \in NeedCached :
           StepOnUnknown(op, path) => NoOp(Err("FileNotCached"))
    /\ StepOnUnknown("write_file", path) => last'.given = None
    /\ StepOnUnknown("ensure_user_data", path) => ensure_closure_arg(files, path) = None
    /\ StepOnCached("file_is_synced", path) => NoOp(Ok(~files[path].changed))

\* C18: file_is_synced, write_file, set_user_data and ensure_user_data on a
\* path that is not cached return Err(FileNotCached), call neither T::write
\* nor the closure and leave the store as it was; on a cached path
\* file_is_synced returns the negation of the dirty flag.
C18_NeedsCachedFile == [][\A path \in Paths : NotCachedStep(path)]_vars

\* set_user_data on "bar" failed and "foo", edited and with user data, is there
C18_Witness ==
    /\ last.op = "set_user_data" /\ last.path = "bar"
    /\ last.res = Err("FileNotCached")
    /\ files = [q \in {"foo"} |->
                   File(CharB \o CharNL \o CharA,
                        make_line_indices(CharB \o CharNL \o CharA), TRUE, Some(42))]

\* a load of path, which the loader can read, returns the text of the loader
\* and caches the file as read, without user data
LoadsAnew(fs, psn, path) ==
    /\ load_file(fs, psn, path, Ok(from_text(LoaderText))).res = Ok(LoaderText)
    /\ load_file(fs, psn, path, Ok(from_text(LoaderText))).files[path]
           = from_text(LoaderText)
    /\ closure_arg(load_file(fs, psn, path, Ok(from_text(LoaderText))).files, path)
           = Err("NoUserDataForFile")

\* C19 for one path
FlushSavedStep(path) ==
    /\ StepOnUnknown("flush_file", path) => NoOp(Ok(<<>>))
    /\ StepOnUnknown("file_saved", path) => NoOp(Ok(<<>>))
    /\ StepOnCached("file_saved", path) =>
           /\ OnlyFile(path, [files[path] EXCEPT !.changed = FALSE])
           /\ last'.res = Ok(<<>>)
    /\ StepOnCached("flush_file", path) =>
           /\ files' = Remove(files, path)
           /\ last'.res = Ok(<<>>)
           /\ LoadsAnew(files', poisoned', path)

\* C19: flush_file and file_saved on a path that is not cached return Ok and
\* leave the store as it was; file_saved on a cached path changes the dirty
\* flag of that file only; flush_file on a cached path removes that entry
\* only, and a load of the path then returns the text of the loader, with no
\* user data.
C19_RecoverableNoOps == [][\A path \in Paths : FlushSavedStep(path)]_vars

\* file_saved on "bar", which is not cached, left "foo" dirty
C19_Witness ==
    /\ last.op = "file_saved" /\ last.path = "bar" /\ last.res = Ok(<<>>)
    /\ DOMAIN files = {"foo"}
    /\ files["foo"].changed
    /\ files["foo"].text = CharB \o CharNL \o CharA

(***************************************************************************)
(* SpecRace: two threads, each making one call on the path "foo" of one    *)
(* store. A step that runs with the lock of `files` held is one action;    *)
(* what on_changes does between its two lock() calls is an action of its   *)
(* own, which the steps of the other thread may precede or follow.         *)
(***************************************************************************)
Threads == {1, 2}

\* the calls a thread makes: on_changes(&[c]) and set_file("foo", text)
RaceCalls ==
    {[op |-> "on_changes", changes |-> <<c>>] :
        c \in {InsertAtStart("foo", CharA), InsertAtStart("foo", CharB)}}
        \cup {[op |-> "set_file", text |-> t] : t \in SetTexts}

\* the position of a thread: its call, where it is in it, its local File and
\* what the call returned
At(call, pc, file, res) == [call |-> call, pc |-> pc, file |-> file, res |-> res]

InitRace ==
    /\ files \in {EmptyMap, [q \in {"foo"} |-> from_text(CharA)]}
    /\ poisoned = FALSE
    /\ last = [op |-> "race", pre |-> files]
    /\ calls \in [Threads -> {At(c, "called", None, None) : c \in RaceCalls}]

\* thread t moves to the position `at`, the store becoming that of the outcome o
Move(t, at, o) ==
    /\ calls' = [calls EXCEPT ![t] = at]
    /\ files' = o.files
    /\ poisoned' = o.poisoned
    /\ last' = last

\* thread t returns res from its call
Return(t, o) == Move(t, At(calls[t].call, "returned", None, Some(o.res)), o)

\* the store as it is
Same == Outcome(Ok(<<>>), files, poisoned)

\* set_file, lines 276-277: the File is built, then inserted under the lock
SetFileLocked(t) ==
    /\ calls[t].pc = "called" /\ calls[t].call.op = "set_file"
    /\ Return(t, set_file(files, poisoned, "foo", calls[t].call.text))

\* on_changes, lines 244-250: under the lock, the file is looked up and, if it
\* is cached, changed; if it is not, the lock is released
OnChangesLocked(t) ==
    /\ calls[t].pc = "called" /\ calls[t].call.op = "on_changes"
    /\ IF poisoned THEN Return(t, Outcome(Panic, files, poisoned))
       ELSE IF "foo" \in DOMAIN files
            THEN Return(t, on_changes_cached(files, "foo", calls[t].call.changes))
            ELSE Move(t, At(calls[t].call, "missed", None, None), Same)

\* the thread goes on with the File it read and changed, or returns the panic
ReadAndChanged(t, r) ==
    IF IsOk(r.res) THEN Move(t, At(calls[t].call, "changed", Some(r.file), None), Same)
    ELSE Return(t, Outcome(r.res, files, poisoned))

\* on_changes, lines 258-259: with no lock held, the file is read and the
\* changes are made on the File that was read
OnChangesUnlocked(t) ==
    /\ calls[t].pc = "missed"
    /\ \E read \in ReadResults :
           IF IsOk(read) THEN ReadAndChanged(t, make_change(read.val, calls[t].call.changes))
           ELSE Return(t, Outcome(read, files, poisoned))

\* on_changes, lines 261-262: the File is inserted under the lock
OnChangesInsert(t) ==
    /\ calls[t].pc = "changed"
    /\ Return(t, locked(files, poisoned,
                        Outcome(Ok(<<>>), Insert(files, "foo", Unwrap(calls[t].file)),
                                FALSE)))

NextRace ==
    \E t \in Threads :
        \/ SetFileLocked(t)
        \/ OnChangesLocked(t)
        \/ OnChangesUnlocked(t)
        \/ OnChangesInsert(t)

SpecRace == InitRace /\ [][NextRace]_vars

(***************************************************************************)
(* Claims on concurrent calls (SpecRace).                                  *)
(***************************************************************************)
\* what the call of thread t leaves when it runs alone on the store fs, from
\* its call to its return, the loader reading the file
Alone(t, fs) ==
    IF calls[t].call.op = "set_file" THEN set_file(fs, FALSE, "foo", calls[t].call.text)
    ELSE on_changes(fs, FALSE, calls[t].call.changes, <<"foo">>,
                    [q \in Paths |-> Ok(from_text(LoaderText))])

\* the store that the calls leave when thread t runs first and thread u after it
OneAfterTheOther(t, u) == Alone(u, Alone(t, last.pre).files).files

\* both calls returned Ok
BothReturnedOk ==
    \A t \in Threads : calls[t].pc = "returned" /\ IsOk(Unwrap(calls[t].res))

\* C20: concurrent operations on the store are atomic with respect to each
\* other, on a cache miss too: when two threads run on_changes, or on_changes
\* and set_file, on the same path, the store they leave is the one that the
\* two calls leave in one of the two serial orders.
C20_Serializable ==
    (last.op = "race" /\ BothReturnedOk) =>
        (files = OneAfterTheOther(1, 2) \/ files = OneAfterTheOther(2, 1))

(***************************************************************************)
(* The lock: two threads, each in one call on the cached path "foo". The    *)
(* MutexGuard is a local of the call that holds it, so the lock is held by  *)
(* the thread whose position is between its lock() and the end of the block *)
(* that owns the guard. Each step under the lock is an action of its own.   *)
(***************************************************************************)
\* the operations that read the store
Observers ==
    {"load_file", "load_line", "get_cached_files", "file_is_synced", "with_user_data"}

\* a change of the second line, which no one-line text has
SecondLineChange(file) == ReplaceText(file, 1, 0, 1, 0, None, CharA)

\* the batches of the calls: two insertions, and an insertion followed by a
\* change that panics
LockBatches ==
    {<<InsertAtStart("foo", CharA), InsertAtStart("foo", CharB)>>,
     <<InsertAtStart("foo", CharB), SecondLineChange("foo")>>}

\* the calls a thread makes; the closure given to ensure_user_data returns
\* the length of the text it is handed plus `add`
LockCalls ==
    {[op |-> "on_changes", changes |-> cs] : cs \in LockBatches}
        \cup {[op |-> o] : o \in Observers}
        \cup {[op |-> "ensure_user_data", add |-> k] : k \in {0, 1}}

\* what the closure of the call returns for text
Computed(call, text) == Len(text) + call.add

\* the position of a thread: its call, where it is in it, the number of
\* changes made or of closure calls, the value the closure returned, and what
\* the call returned
Under(call, pc, done, local, res) ==
    [call |-> call, pc |-> pc, done |-> done, local |-> local, res |-> res]

InitLock ==
    /\ files \in {[q \in {"foo"} |-> f] :
                     f \in {from_text(CharA)}
                               \cup {[from_text(CharA) EXCEPT !.user_data = Some(d)] :
                                        d \in UserData}}
    /\ poisoned = FALSE
    /\ last = [op |-> "lock", pre |-> files]
    /\ calls \in [Threads -> {Under(c, "called", 0, None, None) : c \in LockCalls}]

\* a lock that is granted while another thread holds it
unlocked_always(cs) == TRUE

\* Mutex::lock returns once no thread holds a guard
unlocked(cs) == \A u \in Threads : cs[u].pc \notin {"locked", "computed"}

\* thread t returns res, leaving the store of the outcome o
Returns(t, o) ==
    Move(t, Under(calls[t].call, "returned", calls[t].done, None, Some(o.res)), o)

\* self.files.lock().unwrap(), the first statement of every operation
Lock(t) ==
    /\ calls[t].pc = "called"
    /\ unlocked(calls)
    /\ IF poisoned THEN Returns(t, Outcome(Panic, files, poisoned))
       ELSE Move(t, Under(calls[t].call, "locked", 0, None, None), Same)

\* one round of the loop of make_change on the cached file, once new_text is
\* computed: lines 456-457, or the panic of an unwrap, which drops the guard
\* and poisons the lock
EditOne(t, new_text) ==
    IF ~IsOk(new_text) THEN Returns(t, Outcome(Panic, files, TRUE))
    ELSE Move(t, Under(calls[t].call, "locked", calls[t].done + 1, None, None),
              Outcome(Ok(<<>>),
                      Insert(files, "foo", set_text(files["foo"], new_text.val)),
                      poisoned))

\* on_changes, line 247: the next change of the batch is made under the lock
OnChangesEdit(t) ==
    /\ calls[t].pc = "locked" /\ calls[t].call.op = "on_changes"
    /\ calls[t].done < Len(calls[t].call.changes)
    /\ EditOne(t, change_new_text(files["foo"], calls[t].call.changes[calls[t].done + 1]))

\* on_changes, lines 247-249: make_change ends (lines 460-462) and the guard
\* is dropped
OnChangesDone(t) ==
    /\ calls[t].pc = "locked" /\ calls[t].call.op = "on_changes"
    /\ calls[t].done = Len(calls[t].call.changes)
    /\ Returns(t, Outcome(Ok(<<>>),
                          Insert(files, "foo", make_change_done(files["foo"])),
                          poisoned))

\* what the reading operation of call returns on the store fs; the closure
\* given to with_user_data returns what it was handed
observe(call, fs, psn) ==
    CASE call.op = "load_file" -> load_file(fs, psn, "foo", Err("Io"))
      [] call.op = "load_line" -> vfs_load_line(fs, psn, "foo", 0, Err("Io"))
      [] call.op = "get_cached_files" -> get_cached_files(fs, psn)
      [] call.op = "file_is_synced" -> file_is_synced(fs, psn, "foo")
      [] call.op = "with_user_data" ->
             with_user_data(fs, psn, "foo", [ret |-> closure_arg(fs, "foo"), put |-> None])

\* a reading operation runs under the lock and returns
Observe(t) ==
    /\ calls[t].pc = "locked" /\ calls[t].call.op \in Observers
    /\ Returns(t, observe(calls[t].call, files, poisoned))

\* ensure_user_data, lines 368-372: the file is looked up and, if it has no
\* user data, the closure is called on its text
EnsureCall(t) ==
    /\ calls[t].pc = "locked" /\ calls[t].call.op = "ensure_user_data"
    /\ IF ensure_closure_arg(files, "foo") = None
       THEN Returns(t, ensure_user_data(files, poisoned, "foo", Err("NoUserDataForFile")))
       ELSE Move(t, Under(calls[t].call, "computed", calls[t].done + 1,
                          Some(Computed(calls[t].call,
                                        Unwrap(ensure_closure_arg(files, "foo")))),
                          None),
                 Same)

\* ensure_user_data, lines 373-376: the value the closure returned is stored
EnsureStore(t) ==
    /\ calls[t].pc = "computed"
    /\ Returns(t, Outcome(ensured(Ok(Unwrap(calls[t].local))).res,
                          Insert(files, "foo",
                                 [files["foo"] EXCEPT
                                     !.user_data =
                                         ensured(Ok(Unwrap(calls[t].local))).user_data]),
                          poisoned))

NextLock ==
    \E t \in Threads :
        \/ Lock(t)
        \/ OnChangesEdit(t)
        \/ OnChangesDone(t)
        \/ Observe(t)
        \/ EnsureCall(t)
        \/ EnsureStore(t)

SpecLock == InitLock /\ [][NextLock]_vars

\* thread t calls T::read in the step: it leaves the position between the two
\* lock() calls of on_changes, lines 258-259
Reads(t) == calls[t].pc = "missed" /\ calls'[t].pc # "missed"

\* C21: in every interleaving, T::read is called for a path only when the
\* path has no entry in the map at the moment of the read.
C21_ReadOnlyOnMiss ==
    [][\A t \in Threads : (last.op = "race" /\ Reads(t)) => "foo" \notin DOMAIN files]_vars

\* index is the line index of text, stated from the text alone
LineIndexOf(text, index) ==
    /\ Len(index) = NewlinesBefore(text, Len(text)) + 2
    /\ Len(index) = LineCount(text) + 1
    /\ index[1] = 0
    /\ index[Len(index)] = Len(text)
    /\ \A k \in 1 .. Len(index) - 1 : index[k] <= index[k + 1]
    /\ \A k \in 2 .. Len(index) - 1 :
           /\ index[k] > 0
           /\ text[index[k]] = NewLine
           /\ index[k] = LineStart(text, k - 1)

\* C22: in every reachable state the line index of every cached file is the
\* index of its current text: it starts with 0, ends with len(text), is
\* non-decreasing, has one entry per newline byte plus two (one more than the
\* number of lines), and every entry between the first and the last is the
\* offset just after a newline byte; and so is the index of a file read by
\* the loader, for every text.
C22_LineIndex ==
    /\ \A path \in DOMAIN files :
           LineIndexOf(files[path].text, files[path].line_indices)
    /\ last.op = "new" =>
           \A t \in Texts : LineIndexOf(t, from_text(t).line_indices)

\* a file read by the loader whose first line was replaced in memory by an
\* on_changes edit that leaves the text ending with a newline
C22_Witness ==
    /\ last.op = "on_changes" /\ last.res = Ok(None) /\ "foo" \in last.paths
    /\ "foo" \in DOMAIN files
    /\ files["foo"].text = CharE \o CharNL
    /\ files["foo"].line_indices = <<0, 3, 3>>

\* the other thread
Other(t) == CHOOSE u \in Threads : u # t

\* what the call leaves when it runs alone on the store fs
Serially(call, fs) ==
    IF call.op = "on_changes" THEN on_changes_cached(fs, "foo", call.changes)
    ELSE IF call.op = "ensure_user_data"
         THEN ensure_user_data(fs, FALSE, "foo", Ok(Computed(call, fs["foo"].text)))
         ELSE observe(call, fs, FALSE)

\* thread t reads while the other thread edits
ReadsBesideBatch(t) ==
    calls[t].call.op \in Observers /\ calls[Other(t)].call.op = "on_changes"

\* C23: the edits of one on_changes batch for a cached file, the setting of
\* the dirty flag and the clearing of the user data happen under one lock
\* acquisition: a reading operation of another thread holds the lock only on
\* the store as it was before the batch or as the whole batch leaves it, and
\* returns what it returns on one of the two.
C23_BatchUnderOneLock ==
    \A t \in Threads :
        (last.op = "lock" /\ ReadsBesideBatch(t)) =>
            /\ calls[t].pc = "locked" =>
                   files \in {last.pre, Serially(calls[Other(t)].call, last.pre).files}
            /\ calls[t].pc = "returned" =>
                   Unwrap(calls[t].res) \in
                       {observe(calls[t].call, last.pre, FALSE).res,
                        observe(calls[t].call,
                                Serially(calls[Other(t)].call, last.pre).files,
                                Serially(calls[Other(t)].call, last.pre).poisoned).res}

\* with_user_data was called while on_changes is between the two edits of its
\* batch: the text has changed, the file is not dirty and has its user data
C23_Witness ==
    /\ last.op = "lock"
    /\ calls[1].call.op = "on_changes" /\ calls[1].pc = "locked" /\ calls[1].done = 1
    /\ calls[2].call.op = "with_user_data" /\ calls[2].pc = "called"
    /\ files["foo"].text = CharA \o CharA
    /\ ~files["foo"].changed /\ IsSome(files["foo"].user_data)

\* both threads call ensure_user_data on "foo"
BothEnsure == \A t \in Threads : calls[t].call.op = "ensure_user_data"

\* the number of closures called so far
ClosuresCalled == calls[1].done + calls[2].done

ReadOrUserDataStep ==
    \/ last'.op \in {"file_is_synced", "get_cached_files", "get_changes", "has_changes",
                     "set_user_data", "with_user_data", "ensure_user_data"}
    \/ last'.op \in {"load_file", "load_line"} /\ ~last'.miss

\* the text, the line index and the dirty flag of a file
Buffer(f) == <<f.text, f.line_indices, f.changed>>

\* the step leaves every file's text, line index and dirty flag as they were
KeepsBuffers ==
    /\ DOMAIN files' = DOMAIN files
    /\ \A q \in DOMAIN files : Buffer(files'[q]) = Buffer(files[q])

\* the step made q dirty: it is dirty after it and was not before
MadeDirty(q) ==
    /\ q \in DOMAIN files' /\ files'[q].changed
    /\ ~(q \in DOMAIN files /\ files[q].changed)

\* get_changes on the store fs is get_cached_files restricted to the dirty files
ChangesAreDirtyCached(fs) ==
    /\ DOMAIN get_changes(fs, FALSE).res.val = {q \in DOMAIN fs : fs[q].changed}
    /\ \A q \in DOMAIN get_changes(fs, FALSE).res.val :
           get_changes(fs, FALSE).res.val[q] = get_cached_files(fs, FALSE).res.val[q]

FrameStep ==
    /\ ReadOrUserDataStep => KeepsBuffers
    /\ \A q \in Paths :
           MadeDirty(q) => last'.op \in {"set_file", "on_changes"} /\ q \in last'.paths
    /\ ChangesAreDirtyCached(files) /\ ChangesAreDirtyCached(files')

\* C25: load_file and load_line on a cached path, file_is_synced,
\* get_cached_files, get_changes, has_changes, set_user_data, with_user_data
\* and ensure_user_data leave every file's text, line index and dirty flag
\* unchanged and add or remove no file; a file becomes dirty only by a
\* set_file or an on_changes for its path; and get_changes is always
\* get_cached_files restricted to the dirty files.
C25_ReadsKeepBuffers == [][FrameStep]_vars

\* set_user_data stored user data in "foo", which was loaded and is not dirty,
\* while "bar" is dirty
C25_Witness ==
    /\ last.op = "set_user_data" /\ last.path = "foo" /\ last.res = Ok(<<>>)
    /\ DOMAIN files = {"foo", "bar"}
    /\ files["foo"] = [from_text(LoaderText) EXCEPT !.user_data = Some(42)]
    /\ files["bar"].changed
    /\ DOMAIN get_changes(files, poisoned).res.val = {"bar"}

\* the end position of the span of c lies before its start position
EndsBeforeStart(c) ==
    \/ c.row_end < c.row_start
    \/ c.row_end = c.row_start /\ c.col_end < c.col_start

\* C26 for the change c, which succeeded, of the operation that ran last
WellFormedRangeOf(c) ==
    /\ ByteOf(PreText(c.file), c.row_start, c.col_start)
           <= ByteOf(PreText(c.file), c.row_end, c.col_end)
    /\ Len(files[c.file].text) =
           Len(PreText(c.file))
               - (ByteOf(PreText(c.file), c.row_end, c.col_end)
                      - ByteOf(PreText(c.file), c.row_start, c.col_start))
               + Len(c.text)
    /\ EndsBeforeStart(c) => files[c.file].text = PreText(c.file)

\* C26: a ReplaceText with no len that succeeds replaces a range whose start
\* byte offset is at most its end byte offset, so the new text has length
\* len(old) - (end - start) + len(replacement); an edit whose end position
\* lies before its start position never succeeds in changing the text.
C26_WellFormedRange ==
    (last.op = "on_changes" /\ last.changes[1].len = None /\ IsOk(last.res))
        => WellFormedRangeOf(last.changes[1])

====
